---- MODULE Spec2Model ----
(***************************************************************************)
(* Metrics and alerting engine of the Financial Dashboard repository.      *)
(*                                                                         *)
(* The ledger (the transactions, budgets and financial_goals tables) is    *)
(* the input of every query; the category table is the one                 *)
(* insert_categories writes, with the rows added to it afterwards.  Money  *)
(* is counted in cents, pct_used in tenths of a percent (ROUND(.., 1)) and *)
(* savings_rate in hundredths of a percent (ROUND(.., 2)).  A value that   *)
(* SQL or pandas can deliver as NULL, NaN or an infinity is a tagged       *)
(* record, see Num and Null.                                               *)
(***************************************************************************)
EXTENDS Integers, Sequences, FiniteSets, TLC

VARIABLES transactions, budgets, goals, added_categories, faults, result, run

\* what the queries read and never write: the tables, and the calls that
\* raise (see faults in the composed handlers)
inputs == <<transactions, budgets, goals, added_categories, faults>>

vars == <<transactions, budgets, goals, added_categories, faults, result, run>>

----------------------------------------------------------------------------
(* Bounds of the model *)

\* most rows of the transactions table
MaxTxns == 3

\* most rows of the budgets table
MaxBudgets == 2

----------------------------------------------------------------------------
(* Values *)

Num(v) == [k |-> "num", v |-> v]

\* SQL NULL, read by pandas as None / NaN
Null == [k |-> "null", v |-> 0]

\* float infinities and NaN that pandas arithmetic produces
PosInf == [k |-> "inf", v |-> 0]

NegInf == [k |-> "-inf", v |-> 0]

NaN == [k |-> "nan", v |-> 0]

\* a column the DataFrame does not have
Absent == [k |-> "absent", v |-> 0]

IsNum(x) == x.k = "num"

Abs(n) == IF n < 0 THEN -n ELSE n

RECURSIVE LongDiv(_, _, _, _)
\* decimal long division: <<quotient, remainder>> of (q * d + r) * 10^digits
\* by d, one decimal digit a step (no product leaves the 32-bit range)
LongDiv(q, r, d, digits) ==
    IF digits = 0 THEN <<q, r>>
    ELSE LongDiv(q * 10 + (r * 10) \div d, (r * 10) % d, d, digits - 1)

\* ROUND(n / d * 10^digits) of PostgreSQL numeric for n >= 0, d > 0: half up
RoundRatioPos(n, d, digits) ==
    LET qr == LongDiv(n \div d, n % d, d, digits)
    IN IF 2 * qr[2] >= d THEN qr[1] + 1 ELSE qr[1]

\* ROUND(n / d * 10^digits) of PostgreSQL numeric, d # 0: half away from zero
RoundRatio(n, d, digits) ==
    IF (n >= 0) = (d > 0)
    THEN RoundRatioPos(Abs(n), Abs(d), digits)
    ELSE -RoundRatioPos(Abs(n), Abs(d), digits)

----------------------------------------------------------------------------
(* The category table *)

\* DATE_TRUNC('month', CURRENT_DATE) as a month number
CurrentMonth == 24

\* the rows insert_categories writes (five of them)
inserted_categories ==
    { [category_id |-> 1,  category_name |-> "Salary",      parent_category_id |-> Null,    category_type |-> "income"],
      [category_id |-> 17, category_name |-> "Food",        parent_category_id |-> Null,    category_type |-> "expense"],
      [category_id |-> 18, category_name |-> "Groceries",   parent_category_id |-> Num(17), category_type |-> "expense"],
      [category_id |-> 19, category_name |-> "Restaurants", parent_category_id |-> Num(17), category_type |-> "expense"],
      [category_id |-> 30, category_name |-> "Shopping",    parent_category_id |-> Null,    category_type |-> "expense"] }

\* the categories table: the generated rows and the rows added afterwards
categories == inserted_categories \cup added_categories

\* CURRENT_DATE as a day number; a date is a day number and month m holds
\* the days 30 * m .. 30 * m + 29
Today == 735

\* a NULL merchant
NoMerchant == "<NULL>"

\* the rows insert_transactions can write: amount > 0, type credit for income
\* and debit for purchases, plus a refund (a credit to an expense category)
TxnPool ==
    { [transaction_id |-> 1, category_id |-> 1,  transaction_type |-> "credit", amount |-> 500000, month |-> CurrentMonth, merchant |-> "Employer Inc", transaction_date |-> 720],
      [transaction_id |-> 2, category_id |-> 18, transaction_type |-> "debit",  amount |-> 65000,  month |-> CurrentMonth, merchant |-> "Whole Foods", transaction_date |-> 722],
      [transaction_id |-> 3, category_id |-> 30, transaction_type |-> "debit",  amount |-> 355000, month |-> CurrentMonth, merchant |-> "Generic Merchant", transaction_date |-> 725],
      [transaction_id |-> 4, category_id |-> 19, transaction_type |-> "debit",  amount |-> 10001,  month |-> CurrentMonth, merchant |-> "Chipotle", transaction_date |-> 723],
      [transaction_id |-> 5, category_id |-> 18, transaction_type |-> "credit", amount |-> 2000,   month |-> CurrentMonth, merchant |-> "Whole Foods", transaction_date |-> 726],
      [transaction_id |-> 6, category_id |-> 18, transaction_type |-> "debit",  amount |-> 54000,  month |-> CurrentMonth, merchant |-> "Whole Foods", transaction_date |-> 730],
      [transaction_id |-> 7, category_id |-> 19, transaction_type |-> "debit",  amount |-> 10000,  month |-> CurrentMonth, merchant |-> "Chipotle", transaction_date |-> 733],
      [transaction_id |-> 8, category_id |-> 19, transaction_type |-> "debit",  amount |-> 4500,   month |-> CurrentMonth - 1, merchant |-> "Chipotle", transaction_date |-> 700],
      [transaction_id |-> 9, category_id |-> 30, transaction_type |-> "debit",  amount |-> 2500,   month |-> CurrentMonth - 7, merchant |-> NoMerchant, transaction_date |-> 515] }

\* the rows of budgets: insert_budgets writes active monthly budgets of
\* subcategories; the table also admits other periods, inactive rows, a zero
\* amount, a top-level category and several rows for one category
BudgetPool ==
    { [budget_id |-> 1, category_id |-> 18, budget_period |-> "monthly", budget_amount |-> 60000,  is_active |-> TRUE],
      [budget_id |-> 2, category_id |-> 19, budget_period |-> "monthly", budget_amount |-> 10000,  is_active |-> TRUE],
      [budget_id |-> 3, category_id |-> 18, budget_period |-> "monthly", budget_amount |-> 0,      is_active |-> TRUE],
      [budget_id |-> 4, category_id |-> 18, budget_period |-> "yearly",  budget_amount |-> 720000, is_active |-> TRUE],
      [budget_id |-> 5, category_id |-> 19, budget_period |-> "monthly", budget_amount |-> 30000,  is_active |-> FALSE],
      [budget_id |-> 6, category_id |-> 30, budget_period |-> "monthly", budget_amount |-> 50000,  is_active |-> TRUE] }

Bounded(S, n) == { T \in SUBSET S : Cardinality(T) <= n }

----------------------------------------------------------------------------
(* SQL helpers *)

RECURSIVE SumAmount(_)
\* SUM(t.amount) over a non-empty set of rows (0 for the empty set; the
\* callers decide what an empty group means)
SumAmount(rows) ==
    IF rows = {} THEN 0
    ELSE LET r == CHOOSE x \in rows : TRUE
         IN r.amount + SumAmount(rows \ {r})

\* transactions t JOIN categories c ON t.category_id = c.category_id
TxnJoinCat(txns) ==
    { j \in [t : txns, c : categories] : j.t.category_id = j.c.category_id }

\* the rows of the current month:
\* DATE_TRUNC('month', t.transaction_date) = DATE_TRUNC('month', CURRENT_DATE)
InCurrentMonth(rows) == { j \in rows : j.t.month = CurrentMonth }

\* the t side of joined rows
TxnsOf(rows) == { j.t : j \in rows }

----------------------------------------------------------------------------
(* FinancialReportGenerator.get_monthly_summary *)

\* the current_month CTE: one row, its sums NULL when no row is joined
\* (SUM over no rows), else SUM(CASE .. ELSE 0 END)
current_month(txns) ==
    LET rows == InCurrentMonth(TxnJoinCat(txns))
        inc  == { j \in rows : j.c.category_type = "income" }
        exp  == { j \in rows : j.c.category_type = "expense"
                               /\ j.t.transaction_type = "debit" }
    IN IF rows = {} THEN [income |-> Null, expenses |-> Null]
       ELSE [income   |-> Num(SumAmount(TxnsOf(inc))),
             expenses |-> Num(SumAmount(TxnsOf(exp)))]

\* savings_rate is kept in 10^-2 percent: ROUND(ratio * 100, 2) = ratio * 10^4
RateDigits == 4

\* CASE WHEN income > 0 THEN ROUND((income - expenses) / income * 100, 2)
\* ELSE 0 END; a NULL income makes the condition NULL, hence the ELSE
summary_savings_rate(cm) ==
    IF IsNum(cm.income) /\ cm.income.v > 0
    THEN Num(RoundRatio(cm.income.v - cm.expenses.v, cm.income.v, RateDigits))
    ELSE Num(0)

\* the one row the query returns (df.iloc[0]; an aggregate without GROUP BY
\* always yields a row, so the pd.Series fallback is never taken)
monthly_summary(txns) ==
    LET cm == current_month(txns)
    IN [income       |-> cm.income,
        expenses     |-> cm.expenses,
        savings      |-> IF IsNum(cm.income) /\ IsNum(cm.expenses)
                         THEN Num(cm.income.v - cm.expenses.v) ELSE Null,
        savings_rate |-> summary_savings_rate(cm)]

get_monthly_summary ==
    /\ result' = [op |-> "get_monthly_summary", summary |-> monthly_summary(transactions)]
    /\ UNCHANGED <<inputs, run>>

----------------------------------------------------------------------------
(* FinancialDataETL.extract_monthly_summary *)

\* the months that have a row: DATE_TRUNC('month', t.transaction_date)
MonthsOf(rows) == { j.t.month : j \in rows }

\* SELECT month, category_type, SUM(t.amount) .. GROUP BY 1, 2: every amount
\* of the group is summed, whatever its transaction_type
monthly_type_totals(txns) ==
    LET rows == TxnJoinCat(txns)
        keys == { <<j.t.month, j.c.category_type>> : j \in rows }
    IN { [month         |-> key[1],
          category_type |-> key[2],
          total_amount  |-> SumAmount(TxnsOf({ j \in rows :
                                /\ j.t.month = key[1]
                                /\ j.c.category_type = key[2] }))] : key \in keys }

\* one cell of df.pivot_table(index='month', columns='category_type',
\* values='total_amount', aggfunc='sum', fill_value=0)
pivot_cell(df, month, type) ==
    IF type \notin { r.category_type : r \in df } THEN Absent
    ELSE LET cell == { r \in df : r.month = month /\ r.category_type = type }
         IN IF cell = {} THEN Num(0)
            ELSE Num((CHOOSE r \in cell : TRUE).total_amount)

\* (savings / income * 100).round(2) on float64 columns: a zero income
\* divides to an infinity or to NaN and round keeps it
float_savings_rate(savings, income) ==
    IF income # 0 THEN Num(RoundRatio(savings, income, RateDigits))
    ELSE IF savings > 0 THEN PosInf
    ELSE IF savings < 0 THEN NegInf
    ELSE NaN

\* a row of df_pivot; savings and savings_rate exist only when both the
\* income and the expense column do
pivot_row(df, month) ==
    LET inc  == pivot_cell(df, month, "income")
        exp  == pivot_cell(df, month, "expense")
        both == IsNum(inc) /\ IsNum(exp)
    IN [month        |-> month,
        income       |-> inc,
        expense      |-> exp,
        savings      |-> IF both THEN Num(inc.v - exp.v) ELSE Absent,
        savings_rate |-> IF both THEN float_savings_rate(inc.v - exp.v, inc.v)
                         ELSE Absent]

monthly_summary_pivot(txns) ==
    LET df == monthly_type_totals(txns)
    IN { pivot_row(df, m) : m \in { r.month : r \in df } }

extract_monthly_summary ==
    /\ result' = [op |-> "extract_monthly_summary",
                  rows |-> monthly_summary_pivot(transactions)]
    /\ UNCHANGED <<inputs, run>>

----------------------------------------------------------------------------
(* FinancialDataETL.extract_category_spending *)

\* the category_name of the row's parent (LEFT JOIN categories parent_c)
parent_name(c) ==
    IF IsNum(c.parent_category_id)
    THEN (CHOOSE p \in categories : p.category_id = c.parent_category_id.v).category_name
    ELSE "NULL"

\* debit rows of categories that have a parent, grouped by month, category
\* and parent category (avg_transaction, a quotient no consumer of this
\* model reads, is left out of the row)
category_spending(txns) ==
    LET rows == { j \in TxnJoinCat(txns) :
                    /\ j.t.transaction_type = "debit"
                    /\ IsNum(j.c.parent_category_id) }
        keys == { <<j.t.month, j.c.category_id>> : j \in rows }
    IN { LET grp == { j \in rows : j.t.month = key[1] /\ j.c.category_id = key[2] }
             c   == (CHOOSE j \in grp : TRUE).c
         IN [month             |-> key[1],
             category_name     |-> c.category_name,
             parent_category   |-> parent_name(c),
             total_spend       |-> SumAmount(TxnsOf(grp)),
             transaction_count |-> Cardinality(grp)] : key \in keys }

extract_category_spending ==
    /\ result' = [op |-> "extract_category_spending",
                  rows |-> category_spending(transactions)]
    /\ UNCHANGED <<inputs, run>>

----------------------------------------------------------------------------
(* FinancialDataETL.extract_transactions *)

\* start_date=None, end_date=None
NoDate == -1

\* the (start_date, end_date) arguments of a call: none, or a window inside
\* the current month
DateArgs == { <<NoDate, NoDate>>, <<30 * CurrentMonth, 30 * CurrentMonth + 9>> }

\* one row of the SELECT list (the account columns, which every transaction
\* has, and the calendar columns derived from the date are left out)
transaction_row(j) ==
    [transaction_id   |-> j.t.transaction_id,
     transaction_date |-> j.t.transaction_date,
     amount           |-> j.t.amount,
     merchant         |-> j.t.merchant,
     transaction_type |-> j.t.transaction_type,
     category_name    |-> j.c.category_name,
     category_type    |-> j.c.category_type,
     parent_category  |-> parent_name(j.c)]

RECURSIVE transaction_orders(_)
\* ORDER BY t.transaction_date DESC (rows of one date come in any order)
transaction_orders(rows) ==
    IF rows = {} THEN { <<>> }
    ELSE UNION { { <<r>> \o rest : rest \in transaction_orders(rows \ {r}) }
                 : r \in { x \in rows :
                             \A y \in rows : y.transaction_date <= x.transaction_date } }

\* the DataFrames the query can return for the two arguments
transactions_df(txns, start_date, end_date) ==
    transaction_orders(
        { transaction_row(j) :
            j \in { x \in TxnJoinCat(txns) :
                      /\ start_date # NoDate => x.t.transaction_date >= start_date
                      /\ end_date # NoDate => x.t.transaction_date <= end_date } })

extract_transactions ==
    /\ \E args \in DateArgs :
       \E df \in transactions_df(transactions, args[1], args[2]) :
          result' = [op |-> "extract_transactions", start_date |-> args[1],
                     end_date |-> args[2], df |-> df]
    /\ UNCHANGED <<inputs, run>>

----------------------------------------------------------------------------
(* FinancialReportGenerator.get_spending_trends *)

\* INTERVAL '6 months'
TrendMonths == 6

\* SUM(amount) per month of the debits of expense categories, from six
\* months before the current month on
spending_trends(txns) ==
    LET rows == { j \in TxnJoinCat(txns) :
                    /\ j.c.category_type = "expense"
                    /\ j.t.transaction_type = "debit"
                    /\ j.t.month >= CurrentMonth - TrendMonths }
    IN { [month       |-> m,
          total_spent |-> SumAmount(TxnsOf({ j \in rows : j.t.month = m }))]
         : m \in MonthsOf(rows) }

get_spending_trends ==
    /\ result' = [op |-> "get_spending_trends", rows |-> spending_trends(transactions)]
    /\ UNCHANGED <<inputs, run>>

----------------------------------------------------------------------------
(* The budget evaluators *)

\* the current_month_spending CTE of both evaluators: a row for every
\* category that has a parent, LEFT JOINed with the debits of the current
\* month; COALESCE(SUM(t.amount), 0) and COUNT(t.transaction_id)
current_month_spending(txns) ==
    { LET debits == { t \in txns : /\ t.category_id = c.category_id
                                   /\ t.month = CurrentMonth
                                   /\ t.transaction_type = "debit" }
      IN [category_id      |-> c.category_id,
          category_name    |-> c.category_name,
          actual_spend     |-> SumAmount(debits),
          num_transactions |-> Cardinality(debits)]
      : c \in { c \in categories : IsNum(c.parent_category_id) } }

\* pct_used is kept in 10^-1 percent: ROUND(ratio * 100, 1) = ratio * 10^3
PctDigits == 3

\* FinancialReportGenerator.get_budget_performance, SELECT list:
\* CASE WHEN b.budget_amount > 0 THEN ROUND(actual / budget * 100, 1) ELSE 0 END
report_budget_row(cms, b) ==
    [category_name |-> cms.category_name,
     budget        |-> b.budget_amount,
     actual_spend  |-> cms.actual_spend,
     variance      |-> b.budget_amount - cms.actual_spend,
     pct_used      |-> IF b.budget_amount > 0
                       THEN Num(RoundRatio(cms.actual_spend, b.budget_amount, PctDigits))
                       ELSE Num(0)]

\* FROM current_month_spending cms LEFT JOIN budgets b ON cms.category_id =
\* b.category_id AND b.is_active = TRUE WHERE b.budget_amount IS NOT NULL:
\* the pairs the join matches (an unmatched cms row has a NULL budget_amount
\* and is filtered out)
report_budget_join(txns, buds) ==
    { j \in [cms : current_month_spending(txns), b : buds] :
        /\ j.cms.category_id = j.b.category_id
        /\ j.b.is_active }

RECURSIVE report_budget_orders(_)
\* ORDER BY pct_used DESC over the joined pairs js: a pair of the highest
\* pct_used first (any of them when several tie), then the rest
report_budget_orders(js) ==
    IF js = {} THEN { <<>> }
    ELSE UNION { { <<report_budget_row(j.cms, j.b)>> \o rest
                     : rest \in report_budget_orders(js \ {j}) }
                 : j \in { x \in js :
                             \A y \in js :
                                report_budget_row(y.cms, y.b).pct_used.v
                                    <= report_budget_row(x.cms, x.b).pct_used.v } }

\* the DataFrames get_budget_performance may return: ORDER BY pct_used DESC,
\* rows of equal pct_used in any order
budget_performance(txns, buds) ==
    report_budget_orders(report_budget_join(txns, buds))

get_budget_performance ==
    /\ \E df \in budget_performance(transactions, budgets) :
          result' = [op |-> "get_budget_performance", budget_df |-> df]
    /\ UNCHANGED <<inputs, run>>

\* FinancialDataETL.extract_budget_performance, SELECT list:
\* ROUND((actual / NULLIF(b.budget_amount, 0)) * 100, 1) is NULL for a zero budget
etl_budget_row(cms, b) ==
    [category_name    |-> cms.category_name,
     budget_amount    |-> b.budget_amount,
     actual_spend     |-> cms.actual_spend,
     variance         |-> b.budget_amount - cms.actual_spend,
     pct_used         |-> IF b.budget_amount = 0 THEN Null
                          ELSE Num(RoundRatio(cms.actual_spend, b.budget_amount, PctDigits)),
     num_transactions |-> cms.num_transactions]

\* FROM budgets b JOIN current_month_spending cms ON b.category_id =
\* cms.category_id WHERE b.is_active = TRUE AND b.budget_period = 'monthly'
etl_budget_join(txns, buds) ==
    { j \in [cms : current_month_spending(txns), b : buds] :
        /\ j.cms.category_id = j.b.category_id
        /\ j.b.is_active
        /\ j.b.budget_period = "monthly" }

RECURSIVE etl_budget_orders(_)
\* ORDER BY cms.actual_spend DESC over the joined pairs js: a pair of the
\* highest actual_spend first (any of them when several tie), then the rest
etl_budget_orders(js) ==
    IF js = {} THEN { <<>> }
    ELSE UNION { { <<etl_budget_row(j.cms, j.b)>> \o rest
                     : rest \in etl_budget_orders(js \ {j}) }
                 : j \in { x \in js :
                             \A y \in js : y.cms.actual_spend <= x.cms.actual_spend } }

\* the DataFrames extract_budget_performance may return:
\* ORDER BY cms.actual_spend DESC, equal rows in any order
etl_budget_performance(txns, buds) ==
    etl_budget_orders(etl_budget_join(txns, buds))

extract_budget_performance ==
    /\ \E df \in etl_budget_performance(transactions, budgets) :
          result' = [op |-> "extract_budget_performance", budget_df |-> df]
    /\ UNCHANGED <<inputs, run>>

----------------------------------------------------------------------------
(* FinancialReportGenerator.get_alerts *)

\* budget_df['pct_used'] > 100
ExceededThreshold == 100

\* budget_df['pct_used'] >= 90
WarningThreshold == 90

\* budget_df[budget_df['pct_used'] > 100]
is_over_budget(row) == row.pct_used.v > ExceededThreshold * 10

\* a warning band that leaves out 90 itself ('>' written for '>='):
\* C6_AlertBands tells it from is_near_budget
is_near_budget_open(row) ==
    /\ row.pct_used.v > WarningThreshold * 10
    /\ row.pct_used.v <= ExceededThreshold * 10

\* budget_df[(budget_df['pct_used'] >= 90) & (budget_df['pct_used'] <= 100)]
is_near_budget(row) ==
    /\ row.pct_used.v >= WarningThreshold * 10
    /\ row.pct_used.v <= ExceededThreshold * 10

\* the dict appended for a row over budget; the message holds the category
\* name, the actual spend and abs(variance)
exceeded_alert(row) ==
    [type     |-> "budget_exceeded",
     severity |-> "high",
     message  |-> [category_name |-> row.category_name,
                   actual_spend  |-> row.actual_spend,
                   over_budget   |-> Abs(row.variance)]]

\* the dict appended for a row near its budget; the message holds the
\* category name and pct_used
warning_alert(row) ==
    [type     |-> "budget_warning",
     severity |-> "medium",
     message  |-> [category_name |-> row.category_name,
                   pct_used      |-> row.pct_used.v]]

RECURSIVE MapAlerts(_, _)
\* the alerts of the rows of df that are over budget (over = TRUE) or near
\* it (over = FALSE), in row order
MapAlerts(df, over) ==
    IF df = <<>> THEN <<>>
    ELSE LET row == Head(df)
             rest == MapAlerts(Tail(df), over)
         IN IF over /\ is_over_budget(row) THEN <<exceeded_alert(row)>> \o rest
            ELSE IF ~over /\ is_near_budget(row) THEN <<warning_alert(row)>> \o rest
            ELSE rest

\* the list get_alerts builds from one budget DataFrame: the exceeded alerts,
\* then the warnings
alerts_of(df) == MapAlerts(df, TRUE) \o MapAlerts(df, FALSE)

get_alerts ==
    /\ \E df \in budget_performance(transactions, budgets) :
          result' = [op |-> "get_alerts", budget_df |-> df, alerts |-> alerts_of(df)]
    /\ UNCHANGED <<inputs, run>>

----------------------------------------------------------------------------
(* FinancialReportGenerator.generate_monthly_report *)

\* if summary['savings_rate'] < 20
SavingsRateTarget == 20

\* alerts[:5]
MaxShownAlerts == 5

Rec(text, category) == [text |-> text, category |-> category]

\* over_budget_categories.iloc[0]: the first row of budget_df over budget
RECURSIVE first_over_budget(_)
first_over_budget(df) ==
    IF df = <<>> THEN <<>>
    ELSE IF is_over_budget(Head(df)) THEN <<Head(df)>>
    ELSE first_over_budget(Tail(df))

\* the rules with the alert rule tested before the savings rule:
\* C10_OrderedRecommendations tells it from recommendations_of
recommendations_reordered(summary, budget_df, alerts) ==
    LET r1 == IF summary.savings_rate.v < SavingsRateTarget * 100
              THEN <<Rec("increase_savings_rate", "")>> ELSE <<>>
        r2 == IF Len(alerts) > 0
              THEN <<Rec("review_exceeded_categories", "")>> ELSE <<>>
        top == first_over_budget(budget_df)
        r3 == IF top # <<>>
              THEN <<Rec("focus_on_category", top[1].category_name)>> ELSE <<>>
        recs == r2 \o r1 \o r3
    IN IF recs = <<>>
       THEN <<Rec("great_job", ""), Rec("keep_up_saving", "")>>
       ELSE recs

\* the recommendations list, rule by rule, and the default pair when no rule
\* appended anything
recommendations_of(summary, budget_df, alerts) ==
    LET r1 == IF summary.savings_rate.v < SavingsRateTarget * 100
              THEN <<Rec("increase_savings_rate", "")>> ELSE <<>>
        r2 == IF Len(alerts) > 0
              THEN <<Rec("review_exceeded_categories", "")>> ELSE <<>>
        top == first_over_budget(budget_df)
        r3 == IF top # <<>>
              THEN <<Rec("focus_on_category", top[1].category_name)>> ELSE <<>>
        recs == r1 \o r2 \o r3
    IN IF recs = <<>>
       THEN <<Rec("great_job", ""), Rec("keep_up_saving", "")>>
       ELSE recs

\* a report that lists every alert (C19_ReportAlertCap tells it from
\* monthly_report)
monthly_report_uncapped(summary, budget_df, alerts) ==
    IF ~IsNum(summary.income)
    THEN [op |-> "generate_monthly_report", status |-> "error"]
    ELSE [op              |-> "generate_monthly_report",
          status          |-> "ok",
          summary         |-> summary,
          budget_df       |-> budget_df,
          alerts          |-> alerts,
          shown_alerts    |-> alerts,
          recommendations |-> recommendations_of(summary, budget_df, alerts)]

\* what generate_monthly_report puts into the document from its five
\* fetches.  budget_df and the DataFrame inside get_alerts come from two
\* runs of the same query.  Formatting the summary table applies the format
\* ',.2f' to summary['income']: a NULL sum (no transaction in the current
\* month) arrives as None and raises TypeError, which the except clause
\* re-raises.  top_expenses and trends only feed the rendering, which is not
\* modelled.
monthly_report(summary, budget_df, alerts) ==
    IF ~IsNum(summary.income)
    THEN [op |-> "generate_monthly_report", status |-> "error"]
    ELSE [op              |-> "generate_monthly_report",
          status          |-> "ok",
          summary         |-> summary,
          budget_df       |-> budget_df,
          alerts          |-> alerts,
          shown_alerts    |-> SubSeq(alerts, 1, IF Len(alerts) < MaxShownAlerts
                                                THEN Len(alerts) ELSE MaxShownAlerts),
          recommendations |-> recommendations_of(summary, budget_df, alerts)]

\* the five fetches at the head of the try block
ReportFetches ==
    { "get_monthly_summary", "get_budget_performance", "get_top_expenses",
      "get_spending_trends", "get_alerts" }

\* one try block holds the fetches and the rendering: a fetch that raises
\* leaves it through the except clause, which prints and re-raises
generate_monthly_report ==
    /\ IF faults \cap ReportFetches # {}
       THEN result' = [op |-> "generate_monthly_report", status |-> "error"]
       ELSE \E budget_df \in budget_performance(transactions, budgets) :
            \E alerts_df \in budget_performance(transactions, budgets) :
               result' = monthly_report(monthly_summary(transactions), budget_df,
                                        alerts_of(alerts_df))
    /\ UNCHANGED <<inputs, run>>

----------------------------------------------------------------------------
(* FinancialDataETL.extract_merchant_analysis *)

RECURSIVE Gcd(_, _)
Gcd(a, b) == IF b = 0 THEN a ELSE Gcd(b, a % b)

\* the float n / d of pandas for n >= 0 and d >= 0, kept as the fraction in
\* lowest terms; a zero divisor gives inf, or NaN for 0 / 0
float_ratio(n, d) ==
    IF d = 0 THEN (IF n = 0 THEN NaN ELSE PosInf)
    ELSE [k |-> "ratio", n |-> n \div Gcd(n, d), d |-> d \div Gcd(n, d)]

\* WHERE transaction_type = 'debit' AND merchant IS NOT NULL, one group
merchant_debits(txns, m) ==
    { t \in txns : t.transaction_type = "debit" /\ t.merchant = m }

\* the groups that pass a HAVING COUNT(*) >= 1 (C15_MerchantCadence tells it
\* from merchant_groups)
merchant_groups_single(txns) ==
    { m \in { t.merchant : t \in txns } :
        m # NoMerchant /\ Cardinality(merchant_debits(txns, m)) >= 1 }

\* GROUP BY merchant HAVING COUNT(*) >= 2: the merchants of the result
merchant_groups(txns) ==
    { m \in { t.merchant : t \in txns } :
        m # NoMerchant /\ Cardinality(merchant_debits(txns, m)) >= 2 }

\* one row: the aggregates of the group and the two columns pandas adds
\* (avg_transaction and amount_stddev are left out: nothing reads them)
merchant_row(m, ts) ==
    LET first == CHOOSE d \in { t.transaction_date : t \in ts } :
                     \A t \in ts : d <= t.transaction_date
        last  == CHOOSE d \in { t.transaction_date : t \in ts } :
                     \A t \in ts : d >= t.transaction_date
    IN [merchant          |-> m,
        transaction_count |-> Cardinality(ts),
        total_spent       |-> SumAmount(ts),
        first_transaction |-> first,
        last_transaction  |-> last,
        days_active       |-> last - first,
        avg_days_between  |-> float_ratio(last - first, Cardinality(ts) - 1)]

RECURSIVE merchant_orders(_)
\* ORDER BY total_spent DESC (rows that tie come in any order)
merchant_orders(rows) ==
    IF rows = {} THEN { <<>> }
    ELSE UNION { { <<r>> \o rest : rest \in merchant_orders(rows \ {r}) }
                 : r \in { x \in rows : \A y \in rows : y.total_spent <= x.total_spent } }

\* what extract_merchant_analysis can return.  With no group the columns of
\* the empty DataFrame have dtype object: the difference of the two date
\* columns is then not a timedelta column and .dt raises AttributeError in
\* the pandas versions that do not infer one; the others return the empty
\* DataFrame.
merchant_analysis(txns) ==
    LET dfs == merchant_orders({ merchant_row(m, merchant_debits(txns, m))
                                   : m \in merchant_groups(txns) })
    IN { [op |-> "extract_merchant_analysis", status |-> "ok", df |-> df] : df \in dfs }
       \cup (IF merchant_groups(txns) = {}
             THEN { [op |-> "extract_merchant_analysis", status |-> "error"] }
             ELSE {})

extract_merchant_analysis ==
    /\ result' \in merchant_analysis(transactions)
    /\ UNCHANGED <<inputs, run>>

----------------------------------------------------------------------------
(* FinancialDataETL.extract_financial_goals *)

\* the rows financial_goals can hold: insert_financial_goals writes active
\* goals with 0 <= current_amount < target_amount and a future target_date;
\* the table also admits a reached or overshot goal, a target_date that is
\* today or has passed, a target_amount of 0 and an inactive goal
GoalPool ==
    { [goal_id |-> 1, goal_name |-> "Emergency Fund",    target_amount |-> 1500000, current_amount |-> 850000,  target_date |-> Today + 200, priority |-> 1, is_active |-> TRUE],
      [goal_id |-> 2, goal_name |-> "Vacation",          target_amount |-> 500000,  current_amount |-> 520000,  target_date |-> Today - 10,  priority |-> 3, is_active |-> TRUE],
      [goal_id |-> 3, goal_name |-> "Unplanned",         target_amount |-> 0,       current_amount |-> 25000,   target_date |-> Today + 30,  priority |-> 2, is_active |-> TRUE],
      [goal_id |-> 4, goal_name |-> "New Car",           target_amount |-> 2500000, current_amount |-> 500000,  target_date |-> Today,       priority |-> 2, is_active |-> TRUE],
      [goal_id |-> 5, goal_name |-> "Home Down Payment", target_amount |-> 5000000, current_amount |-> 1200000, target_date |-> Today + 365, priority |-> 1, is_active |-> FALSE],
      [goal_id |-> 6, goal_name |-> "Debt Payoff",       target_amount |-> 800000,  current_amount |-> 800000,  target_date |-> Today + 60,  priority |-> 1, is_active |-> TRUE],
      [goal_id |-> 7, goal_name |-> "Laptop",            target_amount |-> 200000,  current_amount |-> 50000,   target_date |-> Today + 46,  priority |-> 3, is_active |-> TRUE],
      [goal_id |-> 8, goal_name |-> "Tax Bill",          target_amount |-> 300000,  current_amount |-> 100000,  target_date |-> Today - 30,  priority |-> 2, is_active |-> TRUE] }

\* pct_complete is kept in 10^-2 percent: ROUND(ratio * 100, 2) = ratio * 10^4
GoalPctDigits == 4

\* df['days_remaining'].dt.days / 30
DaysPerMonth == 30

\* ROUND(((current_amount / NULLIF(target_amount, 0)) * 100)::numeric, 2):
\* NULLIF turns a target of 0 into NULL and the quotient and ROUND stay NULL
pct_complete(goal) ==
    IF goal.target_amount = 0 THEN Null
    ELSE Num(RoundRatio(goal.current_amount, goal.target_amount, GoalPctDigits))

\* target_date - CURRENT_DATE, read through .dt.days: a whole number of days
days_remaining(goal) == goal.target_date - Today

\* numpy's round(n / d) for d > 0: the nearest integer, a half to the even one
np_round(n, d) ==
    LET m == Abs(n)
        q == m \div d
        r == m % d
        up == IF 2 * r > d \/ (2 * r = d /\ q % 2 = 1) THEN q + 1 ELSE q
    IN IF n >= 0 THEN up ELSE -up

\* the column without its zero: the whole amount_remaining when the target
\* date is today or has passed (C12_MonthlySavingsNeeded tells it from
\* monthly_savings_needed)
monthly_savings_open(amount_remaining, days) ==
    IF days > 0
    THEN np_round(amount_remaining * DaysPerMonth, days)
    ELSE amount_remaining

\* np.where(days > 0, amount_remaining / (days / 30), 0).round(2), in cents
monthly_savings_needed(amount_remaining, days) ==
    IF days > 0
    THEN np_round(amount_remaining * DaysPerMonth, days)
    ELSE 0

\* a goal row with pct_complete cut off at 100 and amount_remaining at 0
\* (C14_OverAchievedOverdue tells it from goal_row)
goal_row_clamped(goal) ==
    LET pct == pct_complete(goal)
        rem == goal.target_amount - goal.current_amount
    IN [goal_name        |-> goal.goal_name,
        target_amount    |-> goal.target_amount,
        current_amount   |-> goal.current_amount,
        target_date      |-> goal.target_date,
        priority         |-> goal.priority,
        amount_remaining |-> IF rem < 0 THEN 0 ELSE rem,
        pct_complete     |-> IF IsNum(pct) /\ pct.v > 10000 THEN Num(10000) ELSE pct,
        days_remaining   |-> days_remaining(goal),
        monthly_savings_needed |->
            monthly_savings_needed(IF rem < 0 THEN 0 ELSE rem, days_remaining(goal))]

\* one row of the DataFrame: the SELECT list and the column added afterwards
goal_row(goal) ==
    [goal_name        |-> goal.goal_name,
     target_amount    |-> goal.target_amount,
     current_amount   |-> goal.current_amount,
     target_date      |-> goal.target_date,
     priority         |-> goal.priority,
     amount_remaining |-> goal.target_amount - goal.current_amount,
     pct_complete     |-> pct_complete(goal),
     days_remaining   |-> days_remaining(goal),
     monthly_savings_needed |->
         monthly_savings_needed(goal.target_amount - goal.current_amount,
                                days_remaining(goal))]

\* ORDER BY priority, pct_complete DESC: row a may not come after row b;
\* DESC puts a NULL pct_complete first
goal_before(a, b) ==
    \/ a.priority < b.priority
    \/ /\ a.priority = b.priority
       /\ IsNum(b.pct_complete)
       /\ (~IsNum(a.pct_complete) \/ a.pct_complete.v > b.pct_complete.v)

RECURSIVE goal_orders(_)
\* the orders ORDER BY may deliver the rows in (rows that tie come in any order)
goal_orders(rows) ==
    IF rows = {} THEN { <<>> }
    ELSE UNION { { <<r>> \o rest : rest \in goal_orders(rows \ {r}) }
                 : r \in { x \in rows : \A y \in rows : ~goal_before(y, x) } }

\* the DataFrames extract_financial_goals can return: the active goals (the
\* monthly_savings_needed column is added only when there is a row)
financial_goals(gs) ==
    goal_orders({ goal_row(g) : g \in { x \in gs : x.is_active } })

extract_financial_goals ==
    /\ \E df \in financial_goals(goals) :
          result' = [op |-> "extract_financial_goals", df |-> df]
    /\ UNCHANGED <<inputs, run>>

----------------------------------------------------------------------------
(* FinancialDataETL.export_to_excel *)

\* the sheets in the order they are written, each with the calls that fill it
Sheets ==
    << [sheet |-> "Transactions",       calls |-> {"extract_transactions", "transform_for_visualization"}],
       [sheet |-> "Budget Performance", calls |-> {"extract_budget_performance"}],
       [sheet |-> "Monthly Summary",    calls |-> {"extract_monthly_summary"}],
       [sheet |-> "Category Spending",  calls |-> {"extract_category_spending"}],
       [sheet |-> "Merchant Analysis",  calls |-> {"extract_merchant_analysis"}],
       [sheet |-> "Financial Goals",    calls |-> {"extract_financial_goals"}] >>

\* the files of the fallback, each with the call that fills it
CsvFiles ==
    << [sheet |-> "transactions.csv",       calls |-> {"extract_transactions"}],
       [sheet |-> "budget_performance.csv", calls |-> {"extract_budget_performance"}],
       [sheet |-> "monthly_summary.csv",    calls |-> {"extract_monthly_summary"}] >>

\* the entries of parts whose try block raises: one of its calls raises, or
\* it is the merchant sheet and extract_merchant_analysis ended in an error
failed_parts(parts, merchant_error) ==
    { parts[i].sheet : i \in { j \in DOMAIN parts :
          \/ parts[j].calls \cap faults # {}
          \/ merchant_error /\ "extract_merchant_analysis" \in parts[j].calls } }

\* the workbook: every sheet has a try block of its own, whose except clause
\* prints a warning.  The outer except clause takes over when ExcelWriter
\* raises, or when it has no sheet to save on leaving the with block, and
\* writes the three CSV files, each in a try block of its own.  The sheets
\* and files hold the DataFrames of the extraction methods.
excel_export(merchant_error) ==
    LET all    == { Sheets[i].sheet : i \in DOMAIN Sheets }
        failed == failed_parts(Sheets, merchant_error)
        csv    == { CsvFiles[i].sheet : i \in DOMAIN CsvFiles }
        nocsv  == failed_parts(CsvFiles, FALSE)
    IN IF "ExcelWriter" \in faults \/ failed = all
       THEN [op |-> "export_to_excel", status |-> "fallback",
             written  |-> csv \ nocsv,
             warnings |-> (IF "ExcelWriter" \in faults THEN {} ELSE failed) \cup nocsv]
       ELSE [op |-> "export_to_excel", status |-> "ok",
             written  |-> all \ failed,
             warnings |-> failed]

export_to_excel ==
    /\ \E m \in merchant_analysis(transactions) :
          result' = excel_export(m.status = "error")
    /\ UNCHANGED <<inputs, run>>

----------------------------------------------------------------------------
(* Specification *)

NoResult == [op |-> "none"]

\* no program is running: the methods are called one by one
NoRun == [program |-> "none", pc |-> "done", conn |-> "none", exc |-> FALSE,
          disconnected |-> FALSE,
          summary |-> Null, budget_df |-> <<>>, alerts |-> <<>>]

Init ==
    /\ transactions \in Bounded(TxnPool, MaxTxns)
    /\ budgets \in Bounded(BudgetPool, MaxBudgets)
    /\ goals = {}
    /\ added_categories = {}
    /\ faults = {}
    /\ result = NoResult
    /\ run = NoRun

Next ==
    \/ get_monthly_summary
    \/ extract_monthly_summary
    \/ extract_category_spending
    \/ get_spending_trends
    \/ get_budget_performance
    \/ extract_budget_performance
    \/ get_alerts
    \/ generate_monthly_report

Spec == Init /\ [][Next]_vars

\* every call of the two classes
NextCall ==
    \/ Next
    \/ extract_transactions
    \/ extract_merchant_analysis
    \/ extract_financial_goals
    \/ export_to_excel

\* a ledger of transactions alone
InitTransactions ==
    /\ transactions \in Bounded(TxnPool, MaxTxns)
    /\ budgets = {}
    /\ goals = {}
    /\ added_categories = {}
    /\ faults = {}
    /\ result = NoResult
    /\ run = NoRun

SpecTransactions == InitTransactions /\ [][NextCall]_vars

\* categories below a subcategory: the parent_category_id column admits a
\* chain of any length
NestedCategories ==
    { [category_id |-> 42, category_name |-> "Organic Produce", parent_category_id |-> Num(18), category_type |-> "expense"],
      [category_id |-> 43, category_name |-> "Farmers Market",  parent_category_id |-> Num(42), category_type |-> "expense"] }

\* transactions of a ledger with nested categories, and two categories over
\* budget by different shares
NestedTxnPool ==
    { [transaction_id |-> 1,  category_id |-> 1,  transaction_type |-> "credit", amount |-> 500000, month |-> CurrentMonth, merchant |-> "Employer Inc", transaction_date |-> 720],
      [transaction_id |-> 2,  category_id |-> 18, transaction_type |-> "debit",  amount |-> 65000,  month |-> CurrentMonth, merchant |-> "Whole Foods", transaction_date |-> 722],
      [transaction_id |-> 10, category_id |-> 19, transaction_type |-> "debit",  amount |-> 12000,  month |-> CurrentMonth, merchant |-> "Olive Garden", transaction_date |-> 724],
      [transaction_id |-> 11, category_id |-> 42, transaction_type |-> "debit",  amount |-> 3000,   month |-> CurrentMonth, merchant |-> "Whole Foods", transaction_date |-> 727],
      [transaction_id |-> 12, category_id |-> 43, transaction_type |-> "debit",  amount |-> 1500,   month |-> CurrentMonth, merchant |-> NoMerchant, transaction_date |-> 728] }

\* a ledger whose category tree is three levels deep below the root
InitNested ==
    /\ transactions \in Bounded(NestedTxnPool, MaxTxns)
    /\ budgets \in Bounded(BudgetPool, MaxBudgets)
    /\ goals = {}
    /\ added_categories = NestedCategories
    /\ faults = {}
    /\ result = NoResult
    /\ run = NoRun

SpecNested == InitNested /\ [][NextCall]_vars

\* rows the tables accept although the data model excludes them: an amount
\* that is not positive, next to valid rows
MalformedTxnPool ==
    { [transaction_id |-> 1,  category_id |-> 1,  transaction_type |-> "credit", amount |-> 500000, month |-> CurrentMonth, merchant |-> "Employer Inc", transaction_date |-> 720],
      [transaction_id |-> 2,  category_id |-> 18, transaction_type |-> "debit",  amount |-> 65000,  month |-> CurrentMonth, merchant |-> "Whole Foods", transaction_date |-> 722],
      [transaction_id |-> 13, category_id |-> 18, transaction_type |-> "debit",  amount |-> -5000,  month |-> CurrentMonth, merchant |-> "Whole Foods", transaction_date |-> 724],
      [transaction_id |-> 14, category_id |-> 19, transaction_type |-> "debit",  amount |-> 0,      month |-> CurrentMonth, merchant |-> "Chipotle", transaction_date |-> 725],
      [transaction_id |-> 15, category_id |-> 44, transaction_type |-> "debit",  amount |-> 2000,   month |-> CurrentMonth, merchant |-> NoMerchant, transaction_date |-> 726] }

\* a valid budget and one with a negative amount
MalformedBudgetPool ==
    { [budget_id |-> 1, category_id |-> 18, budget_period |-> "monthly", budget_amount |-> 60000,  is_active |-> TRUE],
      [budget_id |-> 7, category_id |-> 19, budget_period |-> "monthly", budget_amount |-> -10000, is_active |-> TRUE] }

\* two categories that are each other's parent
CyclicCategories ==
    { [category_id |-> 44, category_name |-> "Loop A", parent_category_id |-> Num(45), category_type |-> "expense"],
      [category_id |-> 45, category_name |-> "Loop B", parent_category_id |-> Num(44), category_type |-> "expense"] }

\* a ledger that may hold records violating the data model
InitMalformed ==
    /\ transactions \in Bounded(MalformedTxnPool, MaxTxns)
    /\ budgets \in SUBSET MalformedBudgetPool
    /\ goals = {}
    /\ added_categories = CyclicCategories
    /\ faults = {}
    /\ result = NoResult
    /\ run = NoRun

SpecMalformed == InitMalformed /\ [][NextCall]_vars

\* at most MaxAlertBudgets rows in a budgets table with many budgets
MaxAlertBudgets == 6

\* active monthly budgets of the two subcategories, all but one of them used up
\* to 90 percent or more by AlertTxns
AlertBudgetPool ==
    { [budget_id |-> 11, category_id |-> 18, budget_period |-> "monthly", budget_amount |-> 60000,  is_active |-> TRUE],
      [budget_id |-> 12, category_id |-> 18, budget_period |-> "monthly", budget_amount |-> 65000,  is_active |-> TRUE],
      [budget_id |-> 14, category_id |-> 18, budget_period |-> "monthly", budget_amount |-> 50000,  is_active |-> TRUE],
      [budget_id |-> 15, category_id |-> 18, budget_period |-> "monthly", budget_amount |-> 100000, is_active |-> TRUE],
      [budget_id |-> 16, category_id |-> 19, budget_period |-> "monthly", budget_amount |-> 10000,  is_active |-> TRUE],
      [budget_id |-> 17, category_id |-> 19, budget_period |-> "monthly", budget_amount |-> 8000,   is_active |-> TRUE],
      [budget_id |-> 18, category_id |-> 19, budget_period |-> "monthly", budget_amount |-> 11000,  is_active |-> TRUE] }

\* a salary, 650.00 of groceries and 100.00 of restaurants in the current month
AlertTxns == { t \in TxnPool : t.transaction_id \in {1, 2, 7} }

\* a ledger with many budgets
InitAlerts ==
    /\ transactions = AlertTxns
    /\ budgets \in Bounded(AlertBudgetPool, MaxAlertBudgets)
    /\ goals = {}
    /\ added_categories = {}
    /\ faults = {}
    /\ result = NoResult
    /\ run = NoRun

SpecAlerts == InitAlerts /\ [][NextCall]_vars

\* at most MaxFaults calls raise
MaxFaults == 2

\* the calls of the two composed handlers that can raise
FaultPool ==
    ReportFetches \cup UNION { Sheets[i].calls : i \in DOMAIN Sheets } \cup {"ExcelWriter"}

\* a small ledger, and calls that raise (a lost connection, a rejected
\* query, a DataFrame or a writer that cannot take the data)
InitFaults ==
    /\ transactions \in Bounded({ t \in TxnPool : t.transaction_id \in {1, 2, 6} }, MaxTxns)
    /\ budgets = {}
    /\ goals = {}
    /\ added_categories = {}
    /\ faults \in Bounded(FaultPool, MaxFaults)
    /\ result = NoResult
    /\ run = NoRun

SpecFaults == InitFaults /\ [][NextCall]_vars

\* at most MaxGoals rows in financial_goals
MaxGoals == 2

\* a ledger that holds financial goals only
InitGoals ==
    /\ transactions = {}
    /\ budgets = {}
    /\ goals \in Bounded(GoalPool, MaxGoals)
    /\ added_categories = {}
    /\ faults = {}
    /\ result = NoResult
    /\ run = NoRun

SpecGoals == InitGoals /\ [][NextCall]_vars

----------------------------------------------------------------------------
(* One run of a program, statement by statement, next to a writing session *)

\* the calls of a run that can raise: psycopg2.connect, the five fetches,
\* the rendering of the document and export_to_excel as a whole
RunFaultPool == ReportFetches \cup {"connect", "doc.build", "export_to_excel"}

\* the state of a program before its first statement
StartOf(program) ==
    [program |-> program, pc |-> "start", conn |-> "none", exc |-> FALSE,
     disconnected |-> FALSE,
     summary |-> Null, budget_df |-> <<>>, alerts |-> <<>>]

\* a query on self.conn raises when the call is one that raises, or when
\* the connection is not open
QueryRaises(call) == call \in faults \/ run.conn # "open"

\* an exception inside the try block of generate_monthly_report: the except
\* clause prints it and re-raises, the finally clause runs next
report_except ==
    /\ run' = [run EXCEPT !.exc = TRUE, !.pc = "finally"]
    /\ result' = [op |-> "generate_monthly_report", status |-> "error"]

\* self.connect(), before the try block: an exception of psycopg2.connect
\* leaves generate_monthly_report at once
report_connect ==
    /\ run.program = "report" /\ run.pc = "start"
    /\ IF "connect" \in faults
       THEN /\ run' = [run EXCEPT !.exc = TRUE, !.pc = "raised"]
            /\ result' = [op |-> "generate_monthly_report", status |-> "error"]
       ELSE /\ run' = [run EXCEPT !.conn = "open", !.pc = "get_monthly_summary"]
            /\ UNCHANGED result
    /\ UNCHANGED inputs

\* summary = self.get_monthly_summary()
report_get_monthly_summary ==
    /\ run.program = "report" /\ run.pc = "get_monthly_summary"
    /\ IF QueryRaises("get_monthly_summary")
       THEN report_except
       ELSE /\ run' = [run EXCEPT !.summary = monthly_summary(transactions),
                                  !.pc = "get_budget_performance"]
            /\ UNCHANGED result
    /\ UNCHANGED inputs

\* budget_df = self.get_budget_performance()
report_get_budget_performance ==
    /\ run.program = "report" /\ run.pc = "get_budget_performance"
    /\ IF QueryRaises("get_budget_performance")
       THEN report_except
       ELSE /\ \E df \in budget_performance(transactions, budgets) :
                  run' = [run EXCEPT !.budget_df = df, !.pc = "get_top_expenses"]
            /\ UNCHANGED result
    /\ UNCHANGED inputs

\* top_expenses = self.get_top_expenses(): it feeds the rendering only
report_get_top_expenses ==
    /\ run.program = "report" /\ run.pc = "get_top_expenses"
    /\ IF QueryRaises("get_top_expenses")
       THEN report_except
       ELSE /\ run' = [run EXCEPT !.pc = "get_spending_trends"]
            /\ UNCHANGED result
    /\ UNCHANGED inputs

\* trends = self.get_spending_trends(): it feeds the rendering only
report_get_spending_trends ==
    /\ run.program = "report" /\ run.pc = "get_spending_trends"
    /\ IF QueryRaises("get_spending_trends")
       THEN report_except
       ELSE /\ run' = [run EXCEPT !.pc = "get_alerts"]
            /\ UNCHANGED result
    /\ UNCHANGED inputs

\* alerts = self.get_alerts(), which runs the budget query again on the
\* tables as they are now (the session reads committed rows)
report_get_alerts ==
    /\ run.program = "report" /\ run.pc = "get_alerts"
    /\ IF QueryRaises("get_alerts") \/ QueryRaises("get_budget_performance")
       THEN report_except
       ELSE /\ \E df \in budget_performance(transactions, budgets) :
                  run' = [run EXCEPT !.alerts = alerts_of(df), !.pc = "build"]
            /\ UNCHANGED result
    /\ UNCHANGED inputs

\* the document: the sections from the fetched values, doc.build, return
report_build ==
    /\ run.program = "report" /\ run.pc = "build"
    /\ IF "doc.build" \in faults \/ ~IsNum(run.summary.income)
       THEN report_except
       ELSE /\ result' = monthly_report(run.summary, run.budget_df, run.alerts)
            /\ run' = [run EXCEPT !.pc = "finally"]
    /\ UNCHANGED inputs

\* disconnect that leaves the connection as it is;
\* C22_ConnectionLifecycle tells it from closed
closed_never(conn) == conn

\* disconnect: if self.conn: self.conn.close()
closed(conn) == IF conn = "none" THEN "none" ELSE "closed"

\* finally: self.disconnect(); then the return, or the re-raised exception
report_finally ==
    /\ run.program = "report" /\ run.pc = "finally"
    /\ run' = [run EXCEPT !.conn = closed(run.conn), !.disconnected = TRUE,
                          !.pc = IF run.exc THEN "raised" ELSE "returned"]
    /\ UNCHANGED <<inputs, result>>

\* main of etl_pipeline: etl.connect() inside the try block; connect prints
\* and re-raises, the except clause of main prints
main_connect ==
    /\ run.program = "etl" /\ run.pc = "start"
    /\ IF "connect" \in faults
       THEN run' = [run EXCEPT !.exc = TRUE, !.pc = "finally"]
       ELSE run' = [run EXCEPT !.conn = "open", !.pc = "export_to_excel"]
    /\ UNCHANGED <<inputs, result>>

\* etl.export_to_excel(...): its queries run on self.conn
main_export_to_excel ==
    /\ run.program = "etl" /\ run.pc = "export_to_excel"
    /\ IF QueryRaises("export_to_excel")
       THEN /\ run' = [run EXCEPT !.exc = TRUE, !.pc = "finally"]
            /\ result' = [op |-> "export_to_excel", status |-> "error"]
       ELSE /\ \E m \in merchant_analysis(transactions) :
                  result' = excel_export(m.status = "error")
            /\ run' = [run EXCEPT !.pc = "finally"]
    /\ UNCHANGED inputs

\* finally: etl.disconnect(); main ends without an exception
main_finally ==
    /\ run.program = "etl" /\ run.pc = "finally"
    /\ run' = [run EXCEPT !.conn = closed(run.conn), !.disconnected = TRUE,
                          !.pc = "done"]
    /\ UNCHANGED <<inputs, result>>

\* the rows another session inserts and commits while the program runs
InsertedTxns == { t \in TxnPool : t.transaction_id = 2 }

InsertedBudgets == { b \in AlertBudgetPool : b.budget_id = 14 }

\* insert_transactions of another session, committed
insert_transactions ==
    /\ Cardinality(transactions) < MaxTxns
    /\ \E t \in InsertedTxns \ transactions : transactions' = transactions \cup {t}
    /\ UNCHANGED <<budgets, goals, added_categories, faults, result, run>>

\* insert_budgets of another session, committed
insert_budgets ==
    /\ Cardinality(budgets) < MaxBudgets
    /\ \E b \in InsertedBudgets \ budgets : budgets' = budgets \cup {b}
    /\ UNCHANGED <<transactions, goals, added_categories, faults, result, run>>

\* a salary and 540.00 of groceries against a budget of 600.00; one of the
\* two programs is about to start
InitRun ==
    /\ transactions = { t \in TxnPool : t.transaction_id \in {1, 6} }
    /\ budgets = { b \in BudgetPool : b.budget_id = 1 }
    /\ goals = {}
    /\ added_categories = {}
    /\ faults \in Bounded(RunFaultPool, MaxFaults)
    /\ result = NoResult
    /\ run \in { StartOf("report"), StartOf("etl") }

\* the statements of the running program
RunStep ==
    \/ report_connect
    \/ report_get_monthly_summary
    \/ report_get_budget_performance
    \/ report_get_top_expenses
    \/ report_get_spending_trends
    \/ report_get_alerts
    \/ report_build
    \/ report_finally
    \/ main_connect
    \/ main_export_to_excel
    \/ main_finally

NextRun ==
    \/ RunStep
    \/ insert_transactions
    \/ insert_budgets

\* the program is single-threaded and runs on: its next statement is taken
SpecRun == InitRun /\ [][NextRun]_vars /\ WF_vars(RunStep)

----------------------------------------------------------------------------
(* Properties *)

\* the category row of a transaction
CategoryOf(t) == CHOOSE c \in categories : c.category_id = t.category_id

\* the income total of a month as the specification defines it
IncomeTotal(txns, m) ==
    SumAmount({ t \in txns : t.month = m /\ CategoryOf(t).category_type = "income" })

\* the expense total of a month as the specification defines it: debits of
\* expense categories only
ExpenseTotal(txns, m) ==
    SumAmount({ t \in txns : /\ t.month = m
                            /\ CategoryOf(t).category_type = "expense"
                            /\ t.transaction_type = "debit" })

\* C1: every component that reports income and expense totals reports, for a
\* period, the sum of the amounts of income categories and the sum of the
\* debits of expense categories; a credit to an expense category (a refund)
\* adds nothing to the expense total.  Stated for the current-month summary
\* and for every row of the per-month summary.
C1_TotalsByClassification ==
    /\ (result.op = "get_monthly_summary" /\ IsNum(result.summary.income)) =>
          /\ result.summary.income.v = IncomeTotal(transactions, CurrentMonth)
          /\ result.summary.expenses.v = ExpenseTotal(transactions, CurrentMonth)
    /\ result.op = "extract_monthly_summary" =>
          \A row \in result.rows :
             /\ IsNum(row.income) => row.income.v = IncomeTotal(transactions, row.month)
             /\ IsNum(row.expense) => row.expense.v = ExpenseTotal(transactions, row.month)

\* C1, the report's part alone: the current-month summary follows the rule
C1_ReportSummaryTotals ==
    (result.op = "get_monthly_summary" /\ IsNum(result.summary.income)) =>
        /\ result.summary.income.v = IncomeTotal(transactions, CurrentMonth)
        /\ result.summary.expenses.v = ExpenseTotal(transactions, CurrentMonth)

\* C2: a period whose income total is 0 reports savings_rate exactly 0, never
\* NaN, an infinity or NULL, and a period with income > 0 reports
\* (income - expenses) / income * 100; in the report summary and in every row
\* of the per-month summary that has a savings_rate.
C2_SavingsRateGuard ==
    /\ result.op = "get_monthly_summary" =>
          LET inc == IncomeTotal(transactions, CurrentMonth)
              exp == ExpenseTotal(transactions, CurrentMonth)
          IN result.summary.savings_rate =
                 IF inc > 0 THEN Num(RoundRatio(inc - exp, inc, RateDigits)) ELSE Num(0)
    /\ result.op = "extract_monthly_summary" =>
          \A row \in result.rows :
             row.savings_rate # Absent =>
                /\ IsNum(row.savings_rate)
                /\ IncomeTotal(transactions, row.month) = 0 => row.savings_rate = Num(0)

\* C2, the report's part alone
C2_ReportSavingsRate ==
    result.op = "get_monthly_summary" =>
        LET inc == IncomeTotal(transactions, CurrentMonth)
            exp == ExpenseTotal(transactions, CurrentMonth)
        IN result.summary.savings_rate =
               IF inc > 0 THEN Num(RoundRatio(inc - exp, inc, RateDigits)) ELSE Num(0)

RECURSIVE SumTotalSpend(_)
SumTotalSpend(rows) ==
    IF rows = {} THEN 0
    ELSE LET r == CHOOSE x \in rows : TRUE
         IN r.total_spend + SumTotalSpend(rows \ {r})

\* the category_type of a category name
TypeOfName(name) ==
    (CHOOSE c \in categories : c.category_name = name).category_type

\* C3: rollup consistency: for every month, the per-category debit totals of
\* the category-spending aggregation, summed over the expense categories,
\* equal the total expense of that month computed directly (the month's
\* total_spent of get_spending_trends); no debit of an expense category is
\* lost, a top-level category's included.
C3_RollupConsistency ==
    result.op = "extract_category_spending" =>
        \A tr \in spending_trends(transactions) :
            SumTotalSpend({ r \in result.rows :
                              /\ r.month = tr.month
                              /\ TypeOfName(r.category_name) = "expense" })
                = tr.total_spent


\* the categories that have an active monthly budget
HasActiveMonthlyBudget(c) ==
    \E b \in budgets : /\ b.category_id = c.category_id
                       /\ b.is_active
                       /\ b.budget_period = "monthly"

\* the debit spend of a category in the current month
ActualSpend(c) ==
    SumAmount({ t \in transactions : /\ t.category_id = c.category_id
                                     /\ t.month = CurrentMonth
                                     /\ t.transaction_type = "debit" })

IsEvaluatorResult ==
    result.op \in {"get_budget_performance", "extract_budget_performance"}

\* the budget column of a row of either evaluator
BudgetOf(row) ==
    IF "budget" \in DOMAIN row THEN row.budget ELSE row.budget_amount

\* the rows of a DataFrame that belong to a category name
RowsOfCategory(df, name) == { i \in DOMAIN df : df[i].category_name = name }

\* C4: the budget evaluator's output has a row for a category if and only if
\* the category has an active monthly budget, with actual spend 0 when it has
\* no debit in the period; a category with no budget, only an inactive one or
\* only a non-monthly one has no row.
C4_RowIffActiveMonthlyBudget ==
    IsEvaluatorResult =>
        \A c \in categories :
            /\ RowsOfCategory(result.budget_df, c.category_name) # {}
                   <=> HasActiveMonthlyBudget(c)
            /\ \A i \in RowsOfCategory(result.budget_df, c.category_name) :
                   result.budget_df[i].actual_spend = ActualSpend(c)

\* C5: a budget row whose budget amount is 0 has pct_used exactly 0 (not
\* NULL, NaN or an infinity) whatever its actual spend, and the alert
\* classifier emits no alert for it.
C5_ZeroBudgetGuard ==
    /\ IsEvaluatorResult =>
          \A i \in DOMAIN result.budget_df :
              BudgetOf(result.budget_df[i]) = 0 => result.budget_df[i].pct_used = Num(0)
    /\ result.op = "get_alerts" =>
          Len(result.alerts) <=
              Cardinality({ i \in DOMAIN result.budget_df : result.budget_df[i].budget # 0 })

\* C5, the report's part alone: get_budget_performance and get_alerts
C5_ReportZeroBudget ==
    /\ result.op = "get_budget_performance" =>
          \A i \in DOMAIN result.budget_df :
              result.budget_df[i].budget = 0 => result.budget_df[i].pct_used = Num(0)
    /\ result.op = "get_alerts" =>
          Len(result.alerts) <=
              Cardinality({ i \in DOMAIN result.budget_df : result.budget_df[i].budget # 0 })

\* the band of the alert rules a row falls into, by pct_used in percent
BandOf(row) ==
    IF row.pct_used.v > 1000 THEN "budget_exceeded"
    ELSE IF row.pct_used.v >= 900 THEN "budget_warning"
    ELSE "none"

\* the alerts of a type whose message names a category
AlertsOf(alerts, type, name) ==
    { i \in DOMAIN alerts : /\ alerts[i].type = type
                            /\ alerts[i].message.category_name = name }

\* C6: every budget row yields at most one alert, decided by pct_used alone:
\* budget_exceeded with severity high above 100, budget_warning with severity
\* medium from 90 to 100, none below 90; for every category and alert type
\* there are as many alerts as rows of that category in that band, so no row
\* has both types and no alert lacks a row.
C6_AlertBands ==
    result.op = "get_alerts" =>
        /\ \A i \in DOMAIN result.alerts :
              \/ result.alerts[i].type = "budget_exceeded" /\ result.alerts[i].severity = "high"
              \/ result.alerts[i].type = "budget_warning" /\ result.alerts[i].severity = "medium"
        /\ \A c \in categories : \A type \in {"budget_exceeded", "budget_warning"} :
              Cardinality(AlertsOf(result.alerts, type, c.category_name))
                  = Cardinality({ i \in RowsOfCategory(result.budget_df, c.category_name) :
                                      BandOf(result.budget_df[i]) = type })

\* a run of the alert classifier that met a row in each band
C6_Witness ==
    /\ result.op = "get_alerts"
    /\ \E i \in DOMAIN result.alerts : result.alerts[i].type = "budget_exceeded"
    /\ \E i \in DOMAIN result.alerts : result.alerts[i].type = "budget_warning"
    /\ Len(result.budget_df) = 2

\* C7: a category whose percent of budget used (actual / budget * 100) is
\* exactly 100.0 gets a budget_warning and no budget_exceeded, and one whose
\* percent used is 100.01 gets a budget_exceeded.
C7_AlertBoundary ==
    result.op = "get_alerts" =>
        \A i \in DOMAIN result.budget_df :
            LET row == result.budget_df[i]
            IN row.budget > 0 =>
                /\ row.actual_spend = row.budget =>
                      /\ AlertsOf(result.alerts, "budget_warning", row.category_name) # {}
                      /\ \A a \in AlertsOf(result.alerts, "budget_exceeded", row.category_name) :
                            result.alerts[a].message.actual_spend # row.actual_spend
                /\ (row.budget % 10000 = 0
                      /\ row.actual_spend - row.budget = row.budget \div 10000) =>
                      \E a \in AlertsOf(result.alerts, "budget_exceeded", row.category_name) :
                          result.alerts[a].message.actual_spend = row.actual_spend

\* C8: a category with several active budgets still has exactly one row in
\* the evaluator's output and at most one alert.
C8_OneRowPerCategory ==
    /\ IsEvaluatorResult =>
          \A c \in categories :
              Cardinality(RowsOfCategory(result.budget_df, c.category_name)) <= 1
    /\ result.op = "get_alerts" =>
          \A c \in categories :
              Cardinality({ i \in DOMAIN result.alerts :
                              result.alerts[i].message.category_name = c.category_name }) <= 1

\* C9: Groceries with an active budget of 600 and a debit spend of 650: the
\* evaluator's row has variance -50 and pct_used 108.3, and the classifier
\* returns a record of type budget_exceeded and severity high that carries
\* the category, the variance -50 and pct_used 108.3 as values of their own.
C9_GroceriesScenario ==
    result.op = "get_alerts" =>
        \A i \in DOMAIN result.budget_df :
            LET row == result.budget_df[i]
            IN (row.category_name = "Groceries" /\ row.budget = 60000
                  /\ row.actual_spend = 65000) =>
                /\ row.variance = -5000
                /\ row.pct_used = Num(1083)
                /\ \E a \in DOMAIN result.alerts :
                      LET alert == result.alerts[a]
                      IN /\ alert.type = "budget_exceeded"
                         /\ alert.severity = "high"
                         /\ {"category", "variance", "pct_used"} \subseteq DOMAIN alert
                         /\ alert.category = "Groceries"
                         /\ alert.variance = -5000
                         /\ alert.pct_used = 1083

\* C9, what the code does deliver in the scenario: the row, and an alert of
\* the type and severity whose message names the category, the spend and the
\* overage
C9_GroceriesAsCoded ==
    result.op = "get_alerts" =>
        \A i \in DOMAIN result.budget_df :
            LET row == result.budget_df[i]
            IN (row.category_name = "Groceries" /\ row.budget = 60000
                  /\ row.actual_spend = 65000) =>
                /\ row.variance = -5000
                /\ row.pct_used = Num(1083)
                /\ \E a \in DOMAIN result.alerts :
                      /\ result.alerts[a].type = "budget_exceeded"
                      /\ result.alerts[a].severity = "high"
                      /\ result.alerts[a].message =
                            [category_name |-> "Groceries", actual_spend |-> 65000,
                             over_budget |-> 5000]

\* the place of a recommendation in the fixed order of the rules
RuleRank(rec) ==
    CASE rec.text = "increase_savings_rate" -> 1
      [] rec.text = "review_exceeded_categories" -> 2
      [] rec.text = "focus_on_category" -> 3
      [] OTHER -> 4

HasRec(recs, text) == \E i \in DOMAIN recs : recs[i].text = text

\* C10: the recommendations are, in this order, raise-savings-rate iff
\* savings_rate < 20, review-exceeded-categories iff an alert exists,
\* focus-on-category iff a category exceeds its budget; the default pair is
\* emitted iff none of the three fired and is then the whole list.  Income
\* 5000 and expenses 4200 give savings 800, savings_rate 16.0 and the
\* raise-savings-rate recommendation.
C10_OrderedRecommendations ==
    (result.op = "generate_monthly_report" /\ result.status = "ok") =>
        LET recs  == result.recommendations
            low   == result.summary.savings_rate.v < 2000
            alert == Len(result.alerts) > 0
            over  == \E i \in DOMAIN result.budget_df : result.budget_df[i].pct_used.v > 1000
        IN /\ HasRec(recs, "increase_savings_rate") <=> low
           /\ HasRec(recs, "review_exceeded_categories") <=> alert
           /\ HasRec(recs, "focus_on_category") <=> over
           /\ \A i, j \in DOMAIN recs :
                 (i < j /\ RuleRank(recs[i]) < 4) => RuleRank(recs[i]) < RuleRank(recs[j])
           /\ (recs = <<Rec("great_job", ""), Rec("keep_up_saving", "")>>)
                 <=> (~low /\ ~alert /\ ~over)
           /\ (low \/ alert \/ over) => \A i \in DOMAIN recs : RuleRank(recs[i]) < 4
           /\ (result.summary.income = Num(500000) /\ result.summary.expenses = Num(420000)) =>
                 /\ result.summary.savings = Num(80000)
                 /\ result.summary.savings_rate = Num(1600)
                 /\ recs[1] = Rec("increase_savings_rate", "")

\* the report of a month with income 5000 and expenses 4200 in which all
\* three rules fired
C10_Witness ==
    /\ result.op = "generate_monthly_report"
    /\ result.status = "ok"
    /\ result.summary.income = Num(500000)
    /\ result.summary.expenses = Num(420000)
    /\ Len(result.recommendations) = 3

\* a report in which no rule fired
C10_WitnessDefault ==
    /\ result.op = "generate_monthly_report"
    /\ result.status = "ok"
    /\ Len(result.alerts) = 0
    /\ result.summary.savings_rate.v >= 2000
    /\ Len(result.budget_df) > 0

\* the rows of a report's budget table that are over budget
OverBudgetRows(df) == { df[i] : i \in { j \in DOMAIN df : df[j].pct_used.v > 1000 } }

\* C11: whenever at least one category exceeds its budget, the
\* focus-on-category recommendation names a category whose overspend
\* actual_spend - budget is the largest among the rows with pct_used > 100,
\* whatever the order of the budget table.
C11_FocusOnHighestOverspend ==
    (result.op = "generate_monthly_report" /\ result.status = "ok"
        /\ OverBudgetRows(result.budget_df) # {}) =>
       \E i \in DOMAIN result.recommendations :
          /\ result.recommendations[i].text = "focus_on_category"
          /\ \E top \in OverBudgetRows(result.budget_df) :
                /\ top.category_name = result.recommendations[i].category
                /\ \A row \in OverBudgetRows(result.budget_df) :
                      top.actual_spend - top.budget >= row.actual_spend - row.budget

\* the rows of a sequence
RowsOf(df) == { df[i] : i \in DOMAIN df }

C13_ZeroTargetGuard ==
    result.op = "extract_financial_goals" =>
       \A row \in RowsOf(result.df) :
          row.target_amount = 0 => row.pct_complete = Num(0)

DebitsOf(m) == { t \in transactions : t.merchant = m /\ t.transaction_type = "debit" }

\* C15: a merchant appears in the merchant analysis iff it has at least two
\* debit transactions; its days_active is last - first and its
\* avg_days_between is days_active / (transaction_count - 1), whose divisor
\* is never zero; with exactly two transactions avg_days_between is the one
\* interval between them.
C15_MerchantCadence ==
    result.op = "extract_merchant_analysis" =>
       IF result.status = "ok"
       THEN /\ \A m \in { t.merchant : t \in transactions } \ {NoMerchant} :
                  (\E row \in RowsOf(result.df) : row.merchant = m)
                      <=> Cardinality(DebitsOf(m)) >= 2
            /\ \A row \in RowsOf(result.df) :
                  /\ row.transaction_count = Cardinality(DebitsOf(row.merchant))
                  /\ row.transaction_count - 1 > 0
                  /\ \A t \in DebitsOf(row.merchant) :
                        /\ row.first_transaction <= t.transaction_date
                        /\ row.last_transaction >= t.transaction_date
                  /\ row.days_active = row.last_transaction - row.first_transaction
                  /\ row.avg_days_between.k = "ratio"
                  /\ row.avg_days_between.n * (row.transaction_count - 1)
                        = row.days_active * row.avg_days_between.d
                  /\ row.transaction_count = 2 =>
                        /\ row.avg_days_between.d = 1
                        /\ row.avg_days_between.n = row.days_active
       ELSE \A m \in { t.merchant : t \in transactions } : Cardinality(DebitsOf(m)) < 2

\* a merchant with three debits and an uneven average is reported
C15_Witness ==
    /\ result.op = "extract_merchant_analysis"
    /\ result.status = "ok"
    /\ \E row \in RowsOf(result.df) :
          row.transaction_count = 3 /\ row.avg_days_between.d = 2

\* a merchant with two debits is reported next to one with a single debit
C15_WitnessPair ==
    /\ result.op = "extract_merchant_analysis"
    /\ result.status = "ok"
    /\ \E row \in RowsOf(result.df) : row.transaction_count = 2
    /\ \E m \in { t.merchant : t \in transactions } : Cardinality(DebitsOf(m)) = 1

RECURSIVE TopLevelAncestor(_)
\* the parentless category at the end of the parent chain of category c
TopLevelAncestor(c) ==
    IF ~IsNum(c.parent_category_id) THEN c
    ELSE TopLevelAncestor(CHOOSE p \in categories : p.category_id = c.parent_category_id.v)

\* the category row of a category name
CategoryNamed(name) == CHOOSE c \in categories : c.category_name = name

\* C16: the parent category reported for a transaction, and for a group of
\* the per-category spending, is the name of the top-level (parentless)
\* ancestor of its category, whatever the depth of the category tree.
C16_ParentIsTopLevelAncestor ==
    /\ result.op = "extract_transactions" =>
          \A row \in RowsOf(result.df) :
             IsNum(CategoryNamed(row.category_name).parent_category_id) =>
                row.parent_category
                    = TopLevelAncestor(CategoryNamed(row.category_name)).category_name
    /\ result.op = "extract_category_spending" =>
          \A row \in result.rows :
             row.parent_category
                 = TopLevelAncestor(CategoryNamed(row.category_name)).category_name

\* the call ended in an error
IsError(r) == "status" \in DOMAIN r /\ r.status = "error"

\* a category on a cycle of parent references (the cycles of the model have
\* length two)
OnCycle(c) ==
    /\ IsNum(c.parent_category_id)
    /\ \E p \in categories :
          /\ p.category_id = c.parent_category_id.v
          /\ p.parent_category_id = Num(c.category_id)

\* C17: a computation that consumes a record violating the data model (a
\* transaction with amount <= 0, a budget with a negative amount, a category
\* on a cycle of parent references) ends in an error; it returns no
\* aggregate, budget row or alert computed from that record.
C17_MalformedInputFailsFast ==
    /\ (result.op \in {"get_monthly_summary", "generate_monthly_report"}
          /\ \E t \in transactions : t.month = CurrentMonth /\ t.amount <= 0)
          => IsError(result)
    /\ (result.op \in {"get_budget_performance", "extract_budget_performance",
                       "get_alerts", "generate_monthly_report"}
          /\ \E b \in budgets : b.is_active /\ b.budget_amount < 0)
          => IsError(result)
    /\ (result.op \in {"extract_transactions", "extract_category_spending"}
          /\ \E t \in transactions : OnCycle(CategoryOf(t)))
          => IsError(result)

\* C18: when exactly one sub-component of a composed evaluation fails (one of
\* the six sheets of export_to_excel, one of the fetches of
\* generate_monthly_report), the evaluation still ends normally, every other
\* section is written or returned and the failure is reported.
C18_PartialResultIsolation ==
    /\ (result.op = "export_to_excel" /\ Cardinality(result.warnings) = 1
          /\ "ExcelWriter" \notin faults) =>
          /\ result.status = "ok"
          /\ Cardinality(result.written) = Len(Sheets) - 1
          /\ result.written \cap result.warnings = {}
    /\ (result.op = "generate_monthly_report"
          /\ Cardinality(faults \cap ReportFetches) = 1
          /\ \E t \in transactions : t.month = CurrentMonth) =>
          result.status = "ok"

\* C18, the workbook alone: one failing sheet leaves the five others written
C18_SheetIsolation ==
    (result.op = "export_to_excel" /\ Cardinality(result.warnings) = 1
       /\ "ExcelWriter" \notin faults) =>
       /\ result.status = "ok"
       /\ Cardinality(result.written) = Len(Sheets) - 1
       /\ result.written \cap result.warnings = {}

\* the number of rows of a budget table at or above 90 percent
AlertRowCount(df) == Cardinality({ i \in DOMAIN df : df[i].pct_used.v >= 900 })

\* C19: the report shows exactly the first min(n, 5) of the n alerts of the
\* classifier, in the classifier's order; get_alerts never truncates: it
\* returns one alert for every row at or above 90 percent.
C19_ReportAlertCap ==
    /\ (result.op = "generate_monthly_report" /\ result.status = "ok") =>
          LET n == Len(result.alerts)
          IN /\ n = AlertRowCount(result.budget_df)
             /\ Len(result.shown_alerts) = (IF n < 5 THEN n ELSE 5)
             /\ \A i \in DOMAIN result.shown_alerts :
                   result.shown_alerts[i] = result.alerts[i]
    /\ result.op = "get_alerts" =>
          Len(result.alerts) = AlertRowCount(result.budget_df)

\* a report of six alerts shows five of them
C19_Witness ==
    /\ result.op = "generate_monthly_report"
    /\ result.status = "ok"
    /\ Len(result.alerts) = 6
    /\ Len(result.shown_alerts) = 5

\* get_alerts returns more than five alerts
C19_WitnessUncapped ==
    /\ result.op = "get_alerts"
    /\ Len(result.alerts) > 5

\* the columns the two evaluators share, of a row of the ETL evaluator
SharedColumns(row) ==
    [category_name |-> row.category_name,
     budget        |-> row.budget_amount,
     actual_spend  |-> row.actual_spend,
     variance      |-> row.variance,
     pct_used      |-> row.pct_used]

\* the two tables hold the same rows in the shared columns, in some order
SameBudgetRows(etl_df, report_df) ==
    /\ Len(etl_df) = Len(report_df)
    /\ { SharedColumns(etl_df[i]) : i \in DOMAIN etl_df } = RowsOf(report_df)

\* C20: on one ledger the two budget evaluators return the same categories
\* and, for each, the same budget, actual_spend, variance and pct_used; their
\* tables differ in the order of the rows only.
C20_EvaluatorsEquivalent ==
    /\ result.op = "extract_budget_performance" =>
          \A df \in budget_performance(transactions, budgets) :
             SameBudgetRows(result.budget_df, df)
    /\ result.op = "get_budget_performance" =>
          \A df \in etl_budget_performance(transactions, budgets) :
             SameBudgetRows(df, result.budget_df)

\* C20 on a ledger whose active budgets are monthly and not zero
C20_EquivalentOnMonthlyBudgets ==
    (\A b \in budgets : b.is_active => (b.budget_period = "monthly" /\ b.budget_amount # 0)) =>
        /\ result.op = "extract_budget_performance" =>
              \A df \in budget_performance(transactions, budgets) :
                 SameBudgetRows(result.budget_df, df)
        /\ result.op = "get_budget_performance" =>
              \A df \in etl_budget_performance(transactions, budgets) :
                 SameBudgetRows(df, result.budget_df)

\* C21: in the report of one run of generate_monthly_report, with rows
\* inserted by another session between the fetches, every budget_exceeded
\* alert has a row of the report's budget table with pct_used > 100, every
\* budget_warning alert a row with 90 <= pct_used <= 100, every such row has
\* its alert, and the review-exceeded recommendation is there exactly when
\* the report's budget table has a row at or above 90.
C21_AlertsMatchBudgetTable ==
    (result.op = "generate_monthly_report" /\ result.status = "ok") =>
        /\ \A c \in categories : \A type \in {"budget_exceeded", "budget_warning"} :
              Cardinality(AlertsOf(result.alerts, type, c.category_name))
                  = Cardinality({ i \in RowsOfCategory(result.budget_df, c.category_name) :
                                      BandOf(result.budget_df[i]) = type })
        /\ HasRec(result.recommendations, "review_exceeded_categories")
              <=> AlertRowCount(result.budget_df) > 0

\* a report whose alerts were fetched after a row was inserted: the budget
\* table was read from a smaller ledger than the alerts
C21_InsertBetweenFetches ==
    /\ result.op = "generate_monthly_report" /\ result.status = "ok"
    /\ run.pc = "returned"
    /\ \E df \in budget_performance(transactions, budgets) :
          /\ result.alerts = alerts_of(df)
          /\ RowsOf(df) # RowsOf(result.budget_df)

\* the positions of a run whose next statement issues a query on self.conn
QueryPcs == ReportFetches \cup {"export_to_excel"}

\* the positions after the last statement of a program
FinalPcs == {"returned", "raised", "done"}

\* what holds at every moment of a run
ConnectionLifecycle ==
    /\ run.pc \in FinalPcs => run.conn # "open"
    /\ run.pc \in QueryPcs => run.conn = "open"
    /\ run.conn = "closed" => run.disconnected
    /\ run.pc = "returned" => (~run.exc /\ result.op = "generate_monthly_report"
                                        /\ result.status = "ok")
    /\ run.pc = "raised" => (run.exc /\ IsError(result))
    /\ (run.program = "report" /\ run.exc) => run.pc \in {"finally", "raised"}
    /\ (run.program = "etl" /\ run.pc = "done") => run.disconnected

\* C22: a connection that was opened is closed in the end on every path; when
\* generate_monthly_report has returned or raised, its connection is closed,
\* and an exception of a fetch or of the build is raised to the caller, never
\* swallowed; when the ETL main is done, disconnect has been called whether
\* or not the export failed; every query is issued on an open connection.
C22_ConnectionLifecycle ==
    /\ []ConnectionLifecycle
    /\ (run.conn = "open") ~> (run.conn = "closed")
    /\ (run.program = "report" /\ run.exc) ~> (run.pc = "raised")
    /\ (run.program = "etl" /\ run.pc = "start") ~> (run.pc = "done")

\* a report whose fetch raised after the connection was opened: the
\* connection is closed and the exception has reached the caller
C22_Witness ==
    /\ run.program = "report" /\ run.pc = "raised"
    /\ run.conn = "closed" /\ run.disconnected
    /\ faults \cap ReportFetches # {}

\* an ETL main that is done after a failed export, its connection closed
C22_WitnessEtlFailed ==
    /\ run.program = "etl" /\ run.pc = "done" /\ run.exc
    /\ run.conn = "closed"

====
